---- MODULE Spec2Model ----
(***************************************************************************)
(* A model of ncollide's collision world (pipeline/world/collision_world.rs)*)
(* and narrow phase (pipeline/narrow_phase/narrow_phase.rs).                *)
(*                                                                         *)
(* The world is one-dimensional: a pose is an integer abscissa (in tenths   *)
(* of a unit), every shape has the bounding box of a unit ball.  The        *)
(* interaction graph is petgraph's Graph (node and edge vectors with        *)
(* swap-remove); the object slab is the slab crate's LIFO free list.        *)
(***************************************************************************)
EXTENDS Integers, Sequences, FiniteSets, TLC

\* ------------------------------------------------------------------ bounds
MaxObjects == 2
MaxSteps == 2
MaxBatch == 2
MaxSignalObjects == 3
MaxQuiet == 3
MaxMisuseObjects == 3
MaxEdgeObjects == 3
MaxPlacements == 3

Positions == {0, 22, 32}
FewPositions == {0, 32}
ScenarioPositions == {50, 28, 18, 5}
QueryTypes == {"Contacts", "Proximity"}
Shapes == {"ball", "cuboid"}
CollisionGroups == {"default", "none"}

VARIABLES
    objects,        \* CollisionWorld::objects: live handle -> CollisionObject
    slab_free,      \* the slab's chain of vacant entries, most recent first
    broad_phase,    \* [proxies: proxy handle -> proxy, pairs: interfering pairs]
    narrow_phase,   \* [contact_events, proximity_events, id_allocator]
    interactions,   \* InteractionGraph: [nodes: Seq(handle), edges: Seq(edge)]
    pair_filters,   \* names of the registered pair filters
    timestamp,      \* CollisionWorld::timestamp
    pc,             \* "idle", or the position inside update(), or "panic"
    signals,        \* started/stopped signals of the broad phase not yet handled
    eid,            \* NarrowPhase::update's position in edge_indices()
    contact_log,    \* history: the pairs whose last contact event is Started
    quiet,          \* history: the world after each update() since the last mutation
    last_call       \* history: the last call, its handles, the world before it

\* The history variables quiet and last_call are written by the next-state
\* relation of each specification, not by the handlers.
vars == <<objects, slab_free, broad_phase, narrow_phase, interactions,
          pair_filters, timestamp, pc, signals, eid, contact_log,
          quiet, last_call>>

\* ------------------------------------------------------------- small helpers
Min(a, b) == IF a <= b THEN a ELSE b
Max(a, b) == IF a >= b THEN a ELSE b
Abs(x) == IF x < 0 THEN -x ELSE x

Live(h) == h \in DOMAIN objects

\* The sequence s without its i-th element, the last element taking its place
\* (Vec::swap_remove).
SwapRemove(s, i) ==
    LET n == Len(s) IN
    IF i = n THEN SubSeq(s, 1, n - 1)
    ELSE [k \in 1 .. (n - 1) |-> IF k = i THEN s[n] ELSE s[k]]

\* ------------------------------------------------ geometry (external shapes)
\* bounding_volume::aabb of a unit ball (radius 10 tenths) at abscissa pos.
aabb(shape, pos) == <<pos - 10, pos + 10>>

\* AABB::loosen and AABB::merge.
loosen(bb, amount) == <<bb[1] - amount, bb[2] + amount>>
\* A faulty variant of merge: the box common to the two boxes.
merge_common(bb1, bb2) == <<Max(bb1[1], bb2[1]), Min(bb1[2], bb2[2])>>
merge(bb1, bb2) == <<Min(bb1[1], bb2[1]), Max(bb1[2], bb2[2])>>
intersects(bb1, bb2) == bb1[1] <= bb2[2] /\ bb2[1] <= bb1[2]

\* GeometricQueryType::query_limit: Contacts(0.1, 0) and Proximity(0.5).
query_limit(qt) == IF qt = "Contacts" THEN 1 ELSE 5

\* GeometricQueryType::contact_queries_to_prediction: Some(sum of the linear
\* predictions) for two Contacts policies, None (the empty set) otherwise.
contact_queries_to_prediction(qt1, qt2) ==
    IF qt1 = "Contacts" /\ qt2 = "Contacts"
    THEN {query_limit(qt1) + query_limit(qt2)}
    ELSE {}

\* The dispatchers know ball against ball only; {} is None.
get_contact_algorithm(shape1, shape2) ==
    IF shape1 = "ball" /\ shape2 = "ball" THEN {"BallBall"} ELSE {}
get_proximity_algorithm(shape1, shape2) ==
    IF shape1 = "ball" /\ shape2 = "ball" THEN {"BallBall"} ELSE {}

\* ContactId::is_null: the null key is 0, live keys are positive.
is_null(id) == id = 0

\* ContactManifoldGenerator::generate_contacts for two balls, on a manifold
\* that save_cache_and_clear has emptied (cache: the contacts it held).  A
\* contact exists when the balls are closer than the prediction; it keeps the
\* cached identifier of its feature when there is one, else its id is null.
generate_contacts(co1, co2, prediction, cache) ==
    LET dist == Abs(co1.position - co2.position) - 20 IN
    IF co1.shape = "ball" /\ co2.shape = "ball" /\ dist < prediction
    THEN <<[id |-> IF cache # <<>> THEN cache[1].id ELSE 0]>>
    ELSE <<>>

\* A faulty variant of proximity_update: the margin is taken inwards, two balls
\* intersect only when they overlap by more than the margin.
proximity_update_inward(co1, co2, margin, prev) ==
    LET dist == Abs(co1.position - co2.position) - 20 IN
    IF ~(co1.shape = "ball" /\ co2.shape = "ball") THEN prev
    ELSE IF dist < -margin THEN "Intersecting"
    ELSE IF dist <= 0 THEN "WithinMargin"
    ELSE "Disjoint"

\* ProximityDetector::update for two balls; prev is kept when the detector
\* does not know the shapes.
proximity_update(co1, co2, margin, prev) ==
    LET dist == Abs(co1.position - co2.position) - 20 IN
    IF ~(co1.shape = "ball" /\ co2.shape = "ball") THEN prev
    ELSE IF dist <= 0 THEN "Intersecting"
    ELSE IF dist <= margin THEN "WithinMargin"
    ELSE "Disjoint"

\* ------------------------------------------ the interaction graph (petgraph)
\* Node indices are 0-based as in the code: node i is g.nodes[i + 1].  An edge
\* is [a, b, w]: source and target node indices and the Interaction it holds.
node_count(g) == Len(g.nodes)
edge_ids(g) == 1 .. Len(g.edges)

\* Graph::add_node: the new node's index.
add_node(g, weight) ==
    [g |-> [g EXCEPT !.nodes = Append(@, weight)], index |-> Len(g.nodes)]

\* Graph::find_edge on an undirected graph: {} when there is none (also when
\* an index is out of bounds).
find_edge(g, a, b) ==
    {e \in edge_ids(g) : \/ g.edges[e].a = a /\ g.edges[e].b = b
                         \/ g.edges[e].a = b /\ g.edges[e].b = a}

contains_edge(g, a, b) == find_edge(g, a, b) # {}

\* Graph::add_edge panics when an index is out of bounds.
add_edge_panics(g, a, b) == Max(a, b) >= node_count(g)
add_edge(g, a, b, weight) ==
    [g EXCEPT !.edges = Append(@, [a |-> a, b |-> b, w |-> weight])]

\* Graph::remove_edge: swap_remove on the edge vector.
remove_edge(g, e) == [g EXCEPT !.edges = SwapRemove(@, e)]

\* Graph::neighbors(id): the edges with an endpoint at id.
neighbors(g, id) == {e \in edge_ids(g) : g.edges[e].a = id \/ g.edges[e].b = id}

RECURSIVE remove_incident(_, _)
remove_incident(g, id) ==
    LET inc == neighbors(g, id) IN
    IF inc = {} THEN g
    ELSE remove_incident(remove_edge(g, CHOOSE e \in inc : \A f \in inc : f <= e), id)

\* Graph::remove_node(a): None when a is out of bounds; otherwise every edge
\* at a is removed, a is swap-removed from the node vector (the last node
\* takes index a and its edges are re-linked), and the weight of the REMOVED
\* node is returned.
remove_node(g, a) ==
    IF a >= node_count(g) THEN [g |-> g, ret |-> {}]
    ELSE
      LET g1 == remove_incident(g, a)
          last == node_count(g) - 1
          relink(i) == IF i = last THEN a ELSE i
      IN [g |-> [nodes |-> SwapRemove(g1.nodes, a + 1),
                 edges |-> [e \in edge_ids(g1) |->
                              [g1.edges[e] EXCEPT !.a = relink(@), !.b = relink(@)]]],
          ret |-> {g.nodes[a + 1]}]

\* An Interaction: Contact(detector, manifold) or Proximity(detector); the
\* field the variant does not have keeps its initial value.
ContactInteraction(manifold) ==
    [kind |-> "Contact", manifold |-> manifold, proximity |-> "Disjoint"]
ProximityInteraction(proximity) ==
    [kind |-> "Proximity", manifold |-> <<>>, proximity |-> proximity]

ContactEvent(type, h1, h2) == [type |-> type, h1 |-> h1, h2 |-> h2]
ProximityEvent(h1, h2, prev, new) ==
    [h1 |-> h1, h2 |-> h2, prev_status |-> prev, new_status |-> new]

\* --------------------------------------------------------- the narrow phase
\* NarrowPhase::new: empty event pools, empty SlotMap.  The SlotMap is the set
\* of its live keys (every value is false outside garbage_collect_ids) and the
\* number of keys it has given out: a key is never given out twice.
NewNarrowPhase ==
    [contact_events |-> <<>>, proximity_events |-> <<>>,
     id_allocator |-> [live |-> {}, next |-> 0]]

\* SlotMap::insert.
slotmap_insert(alloc) ==
    [alloc |-> [live |-> alloc.live \cup {alloc.next + 1}, next |-> alloc.next + 1],
     key |-> alloc.next + 1]

\* narrow_phase.rs 85-89: every contact whose id is null gets a fresh one.
RECURSIVE assign_ids(_, _)
assign_ids(contacts, alloc) ==
    IF contacts = <<>> THEN [contacts |-> <<>>, alloc |-> alloc]
    ELSE LET c == Head(contacts)
             ins == slotmap_insert(alloc)
             c1 == IF is_null(c.id) THEN [c EXCEPT !.id = ins.key] ELSE c
             a1 == IF is_null(c.id) THEN ins.alloc ELSE alloc
             rest == assign_ids(Tail(contacts), a1)
         IN [contacts |-> <<c1>> \o rest.contacts, alloc |-> rest.alloc]

\* A faulty variant of contact_transition_events: Started is pushed whenever
\* the manifold holds a contact, whether or not it held one before.
contact_transition_events_forgetful(had_contacts, manifold, h1, h2) ==
    IF Len(manifold) = 0
    THEN IF had_contacts THEN <<ContactEvent("Stopped", h1, h2)>> ELSE <<>>
    ELSE <<ContactEvent("Started", h1, h2)>>

\* The event update_contact pushes (narrow_phase.rs 94-102), as a sequence.
contact_transition_events(had_contacts, manifold, h1, h2) ==
    IF Len(manifold) = 0
    THEN IF had_contacts THEN <<ContactEvent("Stopped", h1, h2)>> ELSE <<>>
    ELSE IF ~had_contacts THEN <<ContactEvent("Started", h1, h2)>> ELSE <<>>

\* A faulty variant of update_contact: when the query types are incompatible
\* the event pools are emptied before the panic.
update_contact_clearing(np, co1, co2, manifold) ==
    LET had_contacts == Len(manifold) # 0
        pred == contact_queries_to_prediction(co1.query_type, co2.query_type)
    IN IF pred = {}
       THEN [np |-> [np EXCEPT !.contact_events = <<>>, !.proximity_events = <<>>],
             manifold |-> manifold, panic |-> TRUE]
       ELSE LET prediction == CHOOSE p \in pred : TRUE
                generated == generate_contacts(co1, co2, prediction, manifold)
                assigned == assign_ids(generated, np.id_allocator)
            IN [np |-> [np EXCEPT
                          !.id_allocator = assigned.alloc,
                          !.contact_events = @ \o contact_transition_events(
                              had_contacts, assigned.contacts, co1.handle, co2.handle)],
                manifold |-> assigned.contacts,
                panic |-> FALSE]

\* A faulty variant of update_contact: the manifold is cleared before the
\* query types are looked at.
update_contact_hasty(np, co1, co2, manifold) ==
    LET had_contacts == Len(manifold) # 0
        pred == contact_queries_to_prediction(co1.query_type, co2.query_type)
    IN IF pred = {}
       THEN [np |-> np, manifold |-> <<>>, panic |-> TRUE]
       ELSE LET prediction == CHOOSE p \in pred : TRUE
                generated == generate_contacts(co1, co2, prediction, manifold)
                assigned == assign_ids(generated, np.id_allocator)
            IN [np |-> [np EXCEPT
                          !.id_allocator = assigned.alloc,
                          !.contact_events = @ \o contact_transition_events(
                              had_contacts, assigned.contacts, co1.handle, co2.handle)],
                manifold |-> assigned.contacts,
                panic |-> FALSE]

\* NarrowPhase::update_contact.
update_contact(np, co1, co2, manifold) ==
    LET had_contacts == Len(manifold) # 0
        pred == contact_queries_to_prediction(co1.query_type, co2.query_type)
    IN IF pred = {}
       THEN [np |-> np, manifold |-> manifold, panic |-> TRUE]
       ELSE LET prediction == CHOOSE p \in pred : TRUE
                generated == generate_contacts(co1, co2, prediction, manifold)
                assigned == assign_ids(generated, np.id_allocator)
            IN [np |-> [np EXCEPT
                          !.id_allocator = assigned.alloc,
                          !.contact_events = @ \o contact_transition_events(
                              had_contacts, assigned.contacts, co1.handle, co2.handle)],
                manifold |-> assigned.contacts,
                panic |-> FALSE]

\* A faulty variant of update_proximity: the event is pushed without comparing
\* the new status with the previous one.
update_proximity_uncompared(np, co1, co2, prev_prox) ==
    LET new_prox == proximity_update(co1, co2,
                        query_limit(co1.query_type) + query_limit(co2.query_type),
                        prev_prox)
    IN [np |-> [np EXCEPT !.proximity_events =
                    Append(@, ProximityEvent(co1.handle, co2.handle, prev_prox, new_prox))],
        proximity |-> new_prox]

\* NarrowPhase::update_proximity.
update_proximity(np, co1, co2, prev_prox) ==
    LET new_prox == proximity_update(co1, co2,
                        query_limit(co1.query_type) + query_limit(co2.query_type),
                        prev_prox)
    IN [np |-> IF new_prox # prev_prox
               THEN [np EXCEPT !.proximity_events =
                        Append(@, ProximityEvent(co1.handle, co2.handle, prev_prox, new_prox))]
               ELSE np,
        proximity |-> new_prox]

\* NarrowPhase::update_interaction.
update_interaction(np, co1, co2, interaction) ==
    IF interaction.kind = "Contact"
    THEN LET r == update_contact(np, co1, co2, interaction.manifold)
         IN [np |-> r.np, w |-> [interaction EXCEPT !.manifold = r.manifold],
             panic |-> r.panic]
    ELSE LET r == update_proximity(np, co1, co2, interaction.proximity)
         IN [np |-> r.np, w |-> [interaction EXCEPT !.proximity = r.proximity],
             panic |-> FALSE]

\* The non-null ids of the contacts held by the graph's contact manifolds.
contact_ids(g) ==
    {id \in UNION {{g.edges[e].w.manifold[i].id :
                        i \in 1 .. Len(g.edges[e].w.manifold)} :
                     e \in {f \in edge_ids(g) : g.edges[f].w.kind = "Contact"}} :
       ~is_null(id)}

\* A faulty variant of garbage_collect_ids: every id is marked, so that the
\* SlotMap retains all of them.
garbage_collect_ids_retaining(np, g) ==
    IF ~(contact_ids(g) \subseteq np.id_allocator.live)
    THEN [np |-> np, panic |-> TRUE]
    ELSE [np |-> np, panic |-> FALSE]

\* NarrowPhase::garbage_collect_ids: mark the id of every contact (indexing
\* the SlotMap with a key it does not hold panics), then retain the marked.
garbage_collect_ids(np, g) ==
    IF ~(contact_ids(g) \subseteq np.id_allocator.live)
    THEN [np |-> np, panic |-> TRUE]
    ELSE [np |-> [np EXCEPT !.id_allocator.live = @ \cap contact_ids(g)],
          panic |-> FALSE]

\* The events pushed when handle_interaction removes an edge
\* (narrow_phase.rs 212-235).
removed_edge_contact_events(interaction, h1, h2) ==
    IF interaction.kind = "Contact" /\ Len(interaction.manifold) # 0
    THEN <<ContactEvent("Stopped", h1, h2)>> ELSE <<>>

\* A faulty variant of removed_edge_proximity_events: the event is pushed for a
\* Disjoint edge too.
removed_edge_proximity_events_unguarded(interaction, h1, h2) ==
    IF interaction.kind = "Proximity"
    THEN <<ProximityEvent(h1, h2, interaction.proximity, "Disjoint")>> ELSE <<>>

removed_edge_proximity_events(interaction, h1, h2) ==
    IF interaction.kind = "Proximity" /\ interaction.proximity # "Disjoint"
    THEN <<ProximityEvent(h1, h2, interaction.proximity, "Disjoint")>> ELSE <<>>

\* The edge a started signal creates (narrow_phase.rs 187-207): {} when the
\* dispatcher has no algorithm for the two shapes.
new_interaction(co1, co2) ==
    IF co1.query_type = "Contacts" /\ co2.query_type = "Contacts"
    THEN IF get_contact_algorithm(co1.shape, co2.shape) # {}
         THEN {ContactInteraction(<<>>)} ELSE {}
    ELSE IF get_proximity_algorithm(co1.shape, co2.shape) # {}
         THEN {ProximityInteraction("Disjoint")} ELSE {}

\* NarrowPhase::handle_interaction.  SortedPair::new orders the two handles;
\* indexing the slab with a handle it does not hold panics.
handle_interaction(np, g, objs, handle1, handle2, started) ==
    LET k0 == Min(handle1, handle2)
        k1 == Max(handle1, handle2)
    IN IF ~(k0 \in DOMAIN objs /\ k1 \in DOMAIN objs)
       THEN [np |-> np, g |-> g, panic |-> TRUE]
       ELSE
         LET co1 == objs[k0]
             co2 == objs[k1]
             id1 == co1.graph_index
             id2 == co2.graph_index
             found == find_edge(g, id1, id2)
         IN IF started
            THEN IF contains_edge(g, id1, id2) \/ new_interaction(co1, co2) = {}
                 THEN [np |-> np, g |-> g, panic |-> FALSE]
                 ELSE IF add_edge_panics(g, id1, id2)
                      THEN [np |-> np, g |-> g, panic |-> TRUE]
                      ELSE [np |-> np,
                            g |-> add_edge(g, id1, id2,
                                           CHOOSE w \in new_interaction(co1, co2) : TRUE),
                            panic |-> FALSE]
            ELSE IF found = {}
                 THEN [np |-> np, g |-> g, panic |-> FALSE]
                 ELSE LET e == CHOOSE f \in found : TRUE
                          w == g.edges[e].w
                      IN [np |-> [np EXCEPT
                                   !.contact_events = @ \o
                                       removed_edge_contact_events(w, co1.handle, co2.handle),
                                   !.proximity_events = @ \o
                                       removed_edge_proximity_events(w, co1.handle, co2.handle)],
                          g |-> remove_edge(g, e),
                          panic |-> FALSE]

\* NarrowPhase::handle_collision_object_added.
handle_collision_object_added(g, object) == add_node(g, object)

\* A faulty variant of handle_collision_object_removed: the node stays.
handle_collision_object_removed_keeping_node(g, co) ==
    [g |-> remove_incident(g, co.graph_index), ret |-> {}]

\* NarrowPhase::handle_collision_object_removed: every contact manifold at the
\* object's graph index is cleared, then the node is removed; the result of
\* Graph::remove_node is returned as it is.
handle_collision_object_removed(g, co) ==
    LET id == co.graph_index
        cleared == [g EXCEPT !.edges =
                      [e \in edge_ids(g) |->
                         IF e \in neighbors(g, id) /\ g.edges[e].w.kind = "Contact"
                         THEN [g.edges[e] EXCEPT !.w.manifold = <<>>]
                         ELSE g.edges[e]]]
    IN remove_node(cleared, id)

\* Faulty variants of clear_events: one of the two pools is not cleared.
clear_events_keeping_contacts(np) == [np EXCEPT !.proximity_events = <<>>]
clear_events_keeping_proximities(np) == [np EXCEPT !.contact_events = <<>>]

\* NarrowPhase::clear_events.
clear_events(np) == [np EXCEPT !.contact_events = <<>>, !.proximity_events = <<>>]

\* The contact events a handler pushed: the pool grew from np to np1.
pushed_contact_events(np, np1) ==
    SubSeq(np1.contact_events, Len(np.contact_events) + 1, Len(np1.contact_events))

\* The history of the contact events of a run: the unordered pairs of handles
\* whose last pushed contact event is Started.
pair_of(ev) == {ev.h1, ev.h2}

RECURSIVE log_contact_events(_, _)
log_contact_events(log, events) ==
    IF events = <<>> THEN log
    ELSE LET ev == Head(events) IN
         log_contact_events(IF ev.type = "Started" THEN log \cup {pair_of(ev)}
                            ELSE log \ {pair_of(ev)},
                            Tail(events))

\* ----------------------------------------------------------- the broad phase
\* The proxies live in a slab of their own (free: its vacant entries, most
\* recent first).  A proxy is [aabb, data]: its loosened box (deferred updates are flushed by
\* the next update, so the box filed last is the one that counts) and the
\* handle of its object.  pairs: the pairs of proxies reported as started and
\* not yet as stopped.
create_proxy(bp, bb, data) ==
    LET handle == IF bp.free # <<>> THEN Head(bp.free)
                  ELSE Cardinality(DOMAIN bp.proxies)
    IN [bp |-> [bp EXCEPT !.proxies = (handle :> [aabb |-> bb, data |-> data]) @@ @,
                          !.free = IF @ # <<>> THEN Tail(@) ELSE @],
        handle |-> handle]

\* The proxy handles in proxy_handles, each once, in the order they are
\* vacated: the first comes out last of the free chain.
RECURSIVE vacated(_, _)
vacated(proxy_handles, present) ==
    IF proxy_handles = <<>> THEN <<>>
    ELSE IF Head(proxy_handles) \in present
         THEN vacated(Tail(proxy_handles), present \ {Head(proxy_handles)})
                \o <<Head(proxy_handles)>>
         ELSE vacated(Tail(proxy_handles), present)

\* BroadPhase::remove: the proxies and every pair of theirs go; the callback
\* the world passes does nothing.
broad_phase_remove(bp, proxy_handles) ==
    LET gone == {proxy_handles[i] : i \in 1 .. Len(proxy_handles)} IN
    [proxies |-> [p \in (DOMAIN bp.proxies) \ gone |-> bp.proxies[p]],
     free |-> vacated(proxy_handles, DOMAIN bp.proxies) \o bp.free,
     pairs |-> {pr \in bp.pairs : pr \cap gone = {}}]

\* BroadPhase::deferred_set_bounding_volume.
deferred_set_bounding_volume(bp, proxy_handle, bb) ==
    [bp EXCEPT !.proxies[proxy_handle].aabb = bb]

\* CollisionGroupsPairFilter::is_pair_valid.
groups_pair_valid(o1, o2) ==
    o1.collision_groups = "default" /\ o2.collision_groups = "default"

\* CollisionWorld::filter_collision (every registered filter rejects all pairs).
filter_collision(filters, objs, handle1, handle2) ==
    groups_pair_valid(objs[handle1], objs[handle2]) /\ filters = {}

\* CollisionWorld::new(margin): the broad phase keeps each box fattened by the
\* margin (2 tenths here).
margin == 2
fattened(bb) == loosen(bb, margin)

\* The pairs of proxies whose fattened boxes overlap and whose objects may
\* interfere.
overlapping_pairs(bp, filters, objs) ==
    {pr \in SUBSET (DOMAIN bp.proxies) :
        /\ Cardinality(pr) = 2
        /\ \E p \in pr : \E q \in pr \ {p} :
             /\ intersects(fattened(bp.proxies[p].aabb), fattened(bp.proxies[q].aabb))
             /\ filter_collision(filters, objs, bp.proxies[p].data, bp.proxies[q].data)}

\* The signal BroadPhase::update gives the handler for a pair of proxies.
signal_of(bp, pr, started) ==
    LET p == CHOOSE x \in pr : TRUE
        q == CHOOSE x \in pr \ {p} : TRUE
    IN [h1 |-> Min(bp.proxies[p].data, bp.proxies[q].data),
        h2 |-> Max(bp.proxies[p].data, bp.proxies[q].data),
        started |-> started]

\* BroadPhase::update: the started and stopped signals are the difference
\* between the previous and the current set of interfering pairs.
broad_phase_update(bp, filters, objs) ==
    LET cur == overlapping_pairs(bp, filters, objs) IN
    [bp |-> [bp EXCEPT !.pairs = cur],
     signals |-> {signal_of(bp, pr, TRUE) : pr \in cur \ bp.pairs}
                 \cup {signal_of(bp, pr, FALSE) : pr \in bp.pairs \ cur}]

\* ------------------------------------------------------------------- the world
\* CollisionWorld::new.
Init ==
    /\ objects = <<>>
    /\ slab_free = <<>>
    /\ broad_phase = [proxies |-> <<>>, free |-> <<>>, pairs |-> {}]
    /\ narrow_phase = NewNarrowPhase
    /\ interactions = [nodes |-> <<>>, edges |-> <<>>]
    /\ pair_filters = {}
    /\ timestamp = 0
    /\ pc = "idle"
    /\ signals = {}
    /\ eid = 0
    /\ contact_log = {}
    /\ quiet = <<>>
    /\ last_call = <<>>

\* Slab::insert takes the vacant entry freed last, else a new entry.
slab_insert_key(objs, free) ==
    IF free # <<>> THEN Head(free) ELSE Cardinality(DOMAIN objs)

\* CollisionWorld::add.
Add(position, shape, collision_groups, query_type) ==
    /\ pc = "idle"
    /\ LET handle == slab_insert_key(objects, slab_free)
           bb == loosen(aabb(shape, position), query_limit(query_type))
           px == create_proxy(broad_phase, bb, handle)
           nd == handle_collision_object_added(interactions, handle)
           co == [handle |-> handle,
                  proxy_handle |-> px.handle,
                  graph_index |-> nd.index,
                  position |-> position,
                  shape |-> shape,
                  collision_groups |-> collision_groups,
                  query_type |-> query_type,
                  timestamp |-> timestamp]
       IN /\ objects' = (handle :> co) @@ objects
          /\ slab_free' = IF slab_free # <<>> THEN Tail(slab_free) ELSE slab_free
          /\ broad_phase' = px.bp
          /\ interactions' = nd.g
    /\ UNCHANGED <<narrow_phase, pair_filters, timestamp, pc, signals, eid,
                   contact_log>>

\* The handle whose graph index the world rewrites after a node removal
\* (collision_world.rs 162-165): the handle handle_collision_object_removed
\* returned.
transfer_target(ret) == ret

\* The first loop of CollisionWorld::remove (collision_world.rs 154-166).
RECURSIVE remove_nodes(_, _, _, _)
remove_nodes(handles, objs, g, proxy_handles) ==
    IF handles = <<>>
    THEN [objs |-> objs, g |-> g, proxy_handles |-> proxy_handles, panic |-> FALSE]
    ELSE
      LET h == Head(handles) IN
      IF h \notin DOMAIN objs
      THEN [objs |-> objs, g |-> g, proxy_handles |-> proxy_handles, panic |-> TRUE]
      ELSE
        LET co == objs[h]
            graph_index == co.graph_index
            phs == Append(proxy_handles, co.proxy_handle)
            r == handle_collision_object_removed(g, co)
            target == transfer_target(r.ret)
        IN IF target = {}
           THEN remove_nodes(Tail(handles), objs, r.g, phs)
           ELSE LET handle2 == CHOOSE x \in target : TRUE IN
                IF handle2 \notin DOMAIN objs
                THEN [objs |-> objs, g |-> r.g, proxy_handles |-> phs, panic |-> TRUE]
                ELSE remove_nodes(Tail(handles),
                                  [objs EXCEPT ![handle2].graph_index = graph_index],
                                  r.g, phs)

\* The last loop of CollisionWorld::remove (collision_world.rs 173-175):
\* Slab::remove panics on a key it does not hold.
RECURSIVE slab_remove_all(_, _, _)
slab_remove_all(handles, objs, free) ==
    IF handles = <<>> THEN [objs |-> objs, free |-> free, panic |-> FALSE]
    ELSE LET h == Head(handles) IN
         IF h \notin DOMAIN objs
         THEN [objs |-> objs, free |-> free, panic |-> TRUE]
         ELSE slab_remove_all(Tail(handles),
                              [k \in (DOMAIN objs) \ {h} |-> objs[k]],
                              <<h>> \o free)

\* CollisionWorld::remove.
Remove(handles) ==
    /\ pc = "idle"
    /\ LET r1 == remove_nodes(handles, objects, interactions, <<>>)
           bp == broad_phase_remove(broad_phase, r1.proxy_handles)
           r2 == slab_remove_all(handles, r1.objs, slab_free)
       IN /\ interactions' = r1.g
          /\ IF r1.panic
             THEN /\ objects' = r1.objs
                  /\ pc' = "panic"
                  /\ UNCHANGED <<broad_phase, slab_free>>
             ELSE /\ broad_phase' = bp
                  /\ objects' = r2.objs
                  /\ slab_free' = r2.free
                  /\ pc' = IF r2.panic THEN "panic" ELSE "idle"
    /\ UNCHANGED <<narrow_phase, pair_filters, timestamp, signals, eid, contact_log>>

\* A faulty variant of SetPosition: an unknown handle is ignored.
SetPosition_lenient(handle, pos) ==
    /\ pc = "idle"
    /\ IF ~Live(handle)
       THEN UNCHANGED <<objects, broad_phase>>
       ELSE LET co == objects[handle] IN
            /\ objects' = [objects EXCEPT ![handle].position = pos,
                                          ![handle].timestamp = timestamp]
            /\ broad_phase' = deferred_set_bounding_volume(broad_phase, co.proxy_handle,
                                  loosen(aabb(co.shape, pos), query_limit(co.query_type)))
    /\ UNCHANGED <<slab_free, narrow_phase, interactions, pair_filters, timestamp,
                   pc, signals, eid,
                   contact_log>>

\* A faulty variant of SetPosition: the call clears the event pools.
SetPosition_clearing(handle, pos) ==
    /\ pc = "idle"
    /\ IF ~Live(handle)
       THEN pc' = "panic" /\ UNCHANGED <<objects, broad_phase>>
       ELSE LET co == objects[handle] IN
            /\ objects' = [objects EXCEPT ![handle].position = pos,
                                          ![handle].timestamp = timestamp]
            /\ broad_phase' = deferred_set_bounding_volume(broad_phase, co.proxy_handle,
                                  loosen(aabb(co.shape, pos), query_limit(co.query_type)))
            /\ UNCHANGED pc
    /\ narrow_phase' = clear_events(narrow_phase)
    /\ UNCHANGED <<slab_free, interactions, pair_filters, timestamp,
                   signals, eid,
                   contact_log>>

\* CollisionWorld::set_position.
SetPosition(handle, pos) ==
    /\ pc = "idle"
    /\ IF ~Live(handle)
       THEN pc' = "panic" /\ UNCHANGED <<objects, broad_phase>>
       ELSE LET co == objects[handle] IN
            /\ objects' = [objects EXCEPT ![handle].position = pos,
                                          ![handle].timestamp = timestamp]
            /\ broad_phase' = deferred_set_bounding_volume(broad_phase, co.proxy_handle,
                                  loosen(aabb(co.shape, pos), query_limit(co.query_type)))
            /\ UNCHANGED pc
    /\ UNCHANGED <<slab_free, narrow_phase, interactions, pair_filters, timestamp,
                   signals, eid,
                   contact_log>>

\* CollisionWorld::set_query_type.
SetQueryType(handle, query_type) ==
    /\ pc = "idle"
    /\ IF ~Live(handle)
       THEN pc' = "panic" /\ UNCHANGED objects
       ELSE /\ objects' = [objects EXCEPT ![handle].query_type = query_type]
            /\ UNCHANGED pc
    /\ UNCHANGED <<slab_free, broad_phase, narrow_phase, interactions, pair_filters,
                   timestamp, signals, eid,
                   contact_log>>

\* CollisionWorld::set_position_with_prediction.
SetPositionWithPrediction(handle, pos, predicted_pos) ==
    /\ pc = "idle"
    /\ IF ~Live(handle)
       THEN pc' = "panic" /\ UNCHANGED <<objects, broad_phase>>
       ELSE LET co == objects[handle]
                aabb1 == loosen(aabb(co.shape, pos), query_limit(co.query_type))
                aabb2 == loosen(aabb(co.shape, predicted_pos), query_limit(co.query_type))
            IN /\ objects' = [objects EXCEPT ![handle].position = pos,
                                             ![handle].timestamp = timestamp]
               /\ broad_phase' = deferred_set_bounding_volume(broad_phase, co.proxy_handle,
                                                              merge(aabb1, aabb2))
               /\ UNCHANGED pc
    /\ UNCHANGED <<slab_free, narrow_phase, interactions, pair_filters, timestamp,
                   signals, eid,
                   contact_log>>

\* CollisionWorld::set_shape: nothing happens when the handle is unknown.
SetShape(handle, shape) ==
    /\ pc = "idle"
    /\ IF ~Live(handle)
       THEN UNCHANGED <<objects, broad_phase>>
       ELSE LET co == objects[handle] IN
            /\ objects' = [objects EXCEPT ![handle].shape = shape]
            /\ broad_phase' = deferred_set_bounding_volume(broad_phase, co.proxy_handle,
                                  loosen(aabb(shape, co.position), query_limit(co.query_type)))
    /\ UNCHANGED <<slab_free, narrow_phase, interactions, pair_filters, timestamp,
                   pc, signals, eid,
                   contact_log>>

\* CollisionWorld::set_deformations (the deformed shape keeps its box).
SetDeformations(handle) ==
    /\ pc = "idle"
    /\ IF ~Live(handle)
       THEN pc' = "panic" /\ UNCHANGED <<objects, broad_phase>>
       ELSE LET co == objects[handle] IN
            /\ objects' = [objects EXCEPT ![handle].timestamp = timestamp]
            /\ broad_phase' = deferred_set_bounding_volume(broad_phase, co.proxy_handle,
                                  loosen(aabb(co.shape, co.position), query_limit(co.query_type)))
            /\ UNCHANGED pc
    /\ UNCHANGED <<slab_free, narrow_phase, interactions, pair_filters, timestamp,
                   signals, eid,
                   contact_log>>

\* CollisionWorld::set_collision_groups: nothing happens when the handle is
\* unknown.
SetCollisionGroups(handle, groups) ==
    /\ pc = "idle"
    /\ IF ~Live(handle)
       THEN UNCHANGED objects
       ELSE objects' = [objects EXCEPT ![handle].collision_groups = groups]
    /\ UNCHANGED <<slab_free, broad_phase, narrow_phase, interactions, pair_filters,
                   timestamp, pc, signals, eid,
                   contact_log>>

\* CollisionWorld::collision_object: Some(object) or None, as a set.
collision_object(handle) == IF Live(handle) THEN {objects[handle]} ELSE {}

\* CollisionWorld::interaction_pair (effective_only false): None, the empty
\* set, when a handle is unknown; else the interaction found between the graph
\* indices of the two objects.
interaction_pair(handle1, handle2) ==
    IF ~Live(handle1) \/ ~Live(handle2) THEN {}
    ELSE {interactions.edges[e].w :
             e \in find_edge(interactions, objects[handle1].graph_index,
                                           objects[handle2].graph_index)}

\* A query borrows the world immutably: it changes nothing.
Query ==
    /\ pc = "idle"
    /\ UNCHANGED <<objects, slab_free, broad_phase, narrow_phase, interactions,
                   pair_filters, timestamp, pc, signals, eid, contact_log>>

\* CollisionWorld::register_broad_phase_pair_filter, with a filter that
\* rejects every pair.
RegisterPairFilter(name) ==
    /\ pc = "idle"
    /\ pair_filters' = pair_filters \cup {name}
    /\ UNCHANGED <<objects, slab_free, broad_phase, narrow_phase, interactions,
                   timestamp, pc, signals, eid,
                   contact_log>>

\* CollisionWorld::unregister_broad_phase_pair_filter.
UnregisterPairFilter(name) ==
    /\ pc = "idle"
    /\ pair_filters' = pair_filters \ {name}
    /\ UNCHANGED <<objects, slab_free, broad_phase, narrow_phase, interactions,
                   timestamp, pc, signals, eid,
                   contact_log>>

\* CollisionWorld::set_narrow_phase.
SetNarrowPhase ==
    /\ pc = "idle"
    /\ narrow_phase' = NewNarrowPhase
    /\ UNCHANGED <<objects, slab_free, broad_phase, interactions, pair_filters,
                   timestamp, pc, signals, eid,
                   contact_log>>

\* CollisionWorld::update, up to the call of BroadPhase::update: clear_events,
\* then the broad phase computes its signals.
BeginUpdate ==
    /\ pc = "idle"
    /\ LET r == broad_phase_update(broad_phase, pair_filters, objects) IN
       /\ broad_phase' = r.bp
       /\ signals' = r.signals
    /\ narrow_phase' = clear_events(narrow_phase)
    /\ pc' = "broad"
    /\ UNCHANGED <<objects, slab_free, interactions, pair_filters, timestamp, eid,
                   contact_log>>

\* At most MaxSteps updates are started.
UpdateBegin ==
    /\ timestamp < MaxSteps
    /\ BeginUpdate

\* CollisionWorldInterferenceHandler::interference_started / _stopped for one
\* signal, the two handles in either order.
HandleSignal ==
    /\ pc = "broad"
    /\ \E s \in signals : \E swap \in BOOLEAN :
         LET r == handle_interaction(narrow_phase, interactions, objects,
                                     IF swap THEN s.h2 ELSE s.h1,
                                     IF swap THEN s.h1 ELSE s.h2, s.started)
         IN /\ narrow_phase' = r.np
            /\ interactions' = r.g
            /\ signals' = signals \ {s}
            /\ pc' = IF r.panic THEN "panic" ELSE "broad"
            /\ contact_log' = log_contact_events(contact_log,
                                   pushed_contact_events(narrow_phase, r.np))
    /\ UNCHANGED <<objects, slab_free, broad_phase, pair_filters, timestamp, eid>>

\* A faulty variant of BeginNarrowPhase: the narrow phase starts while signals
\* of the broad phase are still to be handled.
BeginNarrowPhase_eager ==
    /\ pc = "broad"
    /\ pc' = "narrow"
    /\ eid' = 1
    /\ UNCHANGED <<objects, slab_free, broad_phase, narrow_phase, interactions,
                   pair_filters, timestamp, signals,
                   contact_log>>

\* perform_broad_phase returns; NarrowPhase::update starts with the edge
\* indices of the graph as it is now.
BeginNarrowPhase ==
    /\ pc = "broad"
    /\ signals = {}
    /\ pc' = "narrow"
    /\ eid' = 1
    /\ UNCHANGED <<objects, slab_free, broad_phase, narrow_phase, interactions,
                   pair_filters, timestamp, signals,
                   contact_log>>

\* A faulty variant of UpdateEdge: the edge is updated only when both endpoints
\* have the timestamp of the step.
UpdateEdge_both ==
    /\ pc = "narrow"
    /\ eid <= Len(interactions.edges)
    /\ LET e == interactions.edges[eid]
           h1 == interactions.nodes[e.a + 1]
           h2 == interactions.nodes[e.b + 1]
       IN IF ~(Live(h1) /\ Live(h2))
          THEN pc' = "panic" /\ UNCHANGED <<narrow_phase, interactions, eid, contact_log>>
          ELSE
            LET co1 == objects[h1]
                co2 == objects[h2]
            IN IF co1.timestamp = timestamp /\ co2.timestamp = timestamp
               THEN LET r == update_interaction(narrow_phase, co1, co2, e.w) IN
                    /\ narrow_phase' = r.np
                    /\ interactions' = [interactions EXCEPT !.edges[eid].w = r.w]
                    /\ pc' = IF r.panic THEN "panic" ELSE "narrow"
                    /\ eid' = eid + 1
                    /\ contact_log' = log_contact_events(contact_log,
                                           pushed_contact_events(narrow_phase, r.np))
               ELSE /\ eid' = eid + 1
                    /\ UNCHANGED <<narrow_phase, interactions, pc, contact_log>>
    /\ UNCHANGED <<objects, slab_free, broad_phase, pair_filters, timestamp, signals>>

\* A faulty variant of UpdateEdge: every edge is updated, whatever the
\* timestamps of its endpoints.
UpdateEdge_all ==
    /\ pc = "narrow"
    /\ eid <= Len(interactions.edges)
    /\ LET e == interactions.edges[eid]
           h1 == interactions.nodes[e.a + 1]
           h2 == interactions.nodes[e.b + 1]
       IN IF ~(Live(h1) /\ Live(h2))
          THEN pc' = "panic" /\ UNCHANGED <<narrow_phase, interactions, eid, contact_log>>
          ELSE
            LET co1 == objects[h1]
                co2 == objects[h2]
                r == update_interaction(narrow_phase, co1, co2, e.w)
            IN /\ narrow_phase' = r.np
               /\ interactions' = [interactions EXCEPT !.edges[eid].w = r.w]
               /\ pc' = IF r.panic THEN "panic" ELSE "narrow"
               /\ eid' = eid + 1
               /\ contact_log' = log_contact_events(contact_log,
                                      pushed_contact_events(narrow_phase, r.np))
    /\ UNCHANGED <<objects, slab_free, broad_phase, pair_filters, timestamp, signals>>

\* One iteration of the loop of NarrowPhase::update (narrow_phase.rs 156-164).
UpdateEdge ==
    /\ pc = "narrow"
    /\ eid <= Len(interactions.edges)
    /\ LET e == interactions.edges[eid]
           h1 == interactions.nodes[e.a + 1]
           h2 == interactions.nodes[e.b + 1]
       IN IF ~(Live(h1) /\ Live(h2))
          THEN pc' = "panic" /\ UNCHANGED <<narrow_phase, interactions, eid, contact_log>>
          ELSE
            LET co1 == objects[h1]
                co2 == objects[h2]
            IN IF co1.timestamp = timestamp \/ co2.timestamp = timestamp
               THEN LET r == update_interaction(narrow_phase, co1, co2, e.w) IN
                    /\ narrow_phase' = r.np
                    /\ interactions' = [interactions EXCEPT !.edges[eid].w = r.w]
                    /\ pc' = IF r.panic THEN "panic" ELSE "narrow"
                    /\ eid' = eid + 1
                    /\ contact_log' = log_contact_events(contact_log,
                                           pushed_contact_events(narrow_phase, r.np))
               ELSE /\ eid' = eid + 1
                    /\ UNCHANGED <<narrow_phase, interactions, pc, contact_log>>
    /\ UNCHANGED <<objects, slab_free, broad_phase, pair_filters, timestamp, signals>>

\* A faulty variant of EndUpdate: the world's timestamp is not incremented.
EndUpdate_same_timestamp ==
    /\ pc = "narrow"
    /\ eid > Len(interactions.edges)
    /\ LET r == garbage_collect_ids(narrow_phase, interactions) IN
       /\ narrow_phase' = r.np
       /\ pc' = IF r.panic THEN "panic" ELSE "idle"
    /\ eid' = 0
    /\ UNCHANGED <<objects, slab_free, broad_phase, interactions, pair_filters, signals,
                   timestamp, contact_log>>

\* The end of NarrowPhase::update (garbage_collect_ids) and of
\* perform_narrow_phase (the timestamp).
EndUpdate ==
    /\ pc = "narrow"
    /\ eid > Len(interactions.edges)
    /\ LET r == garbage_collect_ids(narrow_phase, interactions) IN
       /\ narrow_phase' = r.np
       /\ IF r.panic
          THEN pc' = "panic" /\ UNCHANGED timestamp
          ELSE pc' = "idle" /\ timestamp' = timestamp + 1
    /\ eid' = 0
    /\ UNCHANGED <<objects, slab_free, broad_phase, interactions, pair_filters, signals,
                   contact_log>>

\* The lists of at most MaxBatch distinct live handles.
Batches ==
    {hs \in UNION {[1 .. n -> DOMAIN objects] : n \in 1 .. MaxBatch} :
        \A i, j \in DOMAIN hs : hs[i] = hs[j] => i = j}

\* The model holds at most max_objects objects and as many graph nodes.
CanAdd(max_objects) ==
    /\ Cardinality(DOMAIN objects) < max_objects
    /\ node_count(interactions) < max_objects

\* The steps of one CollisionWorld::update.
UpdateStep ==
    \/ UpdateBegin
    \/ HandleSignal
    \/ BeginNarrowPhase
    \/ UpdateEdge
    \/ EndUpdate

\* The history variables quiet and last_call are not kept.
Untracked == UNCHANGED <<quiet, last_call>>

\* Two balls on a line: every pose, both query policies, a replaced narrow phase.
Next ==
    \/ /\ CanAdd(MaxObjects)
       /\ \E p \in Positions, q \in QueryTypes : Add(p, "ball", "default", q)
       /\ Untracked
    \/ (\E hs \in Batches : Remove(hs)) /\ Untracked
    \/ (\E h \in DOMAIN objects, p \in Positions : SetPosition(h, p)) /\ Untracked
    \/ (\E h \in DOMAIN objects, q \in QueryTypes : SetQueryType(h, q)) /\ Untracked
    \/ SetNarrowPhase /\ Untracked
    \/ UpdateBegin /\ Untracked
    \/ HandleSignal /\ Untracked
    \/ BeginNarrowPhase /\ Untracked
    \/ UpdateEdge /\ Untracked
    \/ EndUpdate /\ Untracked

Spec == Init /\ [][Next]_vars

\* What an update leaves behind: the graph, the live contact ids and the number
\* of ids given out so far, the two event pools.
update_view ==
    [interactions |-> interactions,
     live |-> narrow_phase.id_allocator.live,
     next |-> narrow_phase.id_allocator.next,
     contact_events |-> narrow_phase.contact_events,
     proximity_events |-> narrow_phase.proximity_events]

\* The world without its timestamp and the free chains of its slabs.
world_view ==
    [objects |-> objects,
     interactions |-> interactions,
     proxies |-> broad_phase.proxies,
     pairs |-> broad_phase.pairs,
     contact_events |-> narrow_phase.contact_events,
     proximity_events |-> narrow_phase.proximity_events,
     id_allocator |-> narrow_phase.id_allocator]

\* The history of a call: its name, the handles it is given or returns, whether
\* one of them is not live at the call, what it returns and, for an add or the
\* registration of a filter, the world before it.
Call(op, handles, ret) ==
    [op |-> op,
     handles |-> handles,
     unknown |-> \E i \in DOMAIN handles : ~Live(handles[i]) /\ op # "add",
     world |-> IF op \in {"add", "register_broad_phase_pair_filter"}
               THEN world_view ELSE <<>>,
     ret |-> ret]

\* The history of remove(hs): when it follows the add that returned the handle
\* in hs, the pair of calls and the world before the add.
AddUndone(hs) ==
    IF last_call # <<>> /\ last_call.op = "add" /\ last_call.handles = hs
    THEN [last_call EXCEPT !.op = "add_remove"]
    ELSE <<>>

\* A call other than add and update was the last one.
Mutated == quiet' = <<>> /\ last_call' = <<>>

\* A step inside update().
Updating == UNCHANGED quiet /\ last_call' = <<>>

\* update() may start MaxSteps times, and again as long as fewer than MaxQuiet
\* updates have followed one another with no other call in between.
UpdateBeginQuiet ==
    /\ Len(quiet) < MaxQuiet
    /\ timestamp < MaxSteps \/ quiet # <<>>
    /\ BeginUpdate

\* The world holds at most MaxObjects objects, but for one more that is added
\* and removed at once.
Settled == Cardinality(DOMAIN objects) <= MaxObjects

\* The handle returned by the add that was the last call, as a list.
last_added ==
    IF last_call # <<>> /\ last_call.op = "add" THEN last_call.handles ELSE <<>>

\* Two balls on a line, with the history of the calls: quiet holds what each
\* update() left since the last other call, last_call the add that was the last
\* call (or the add and the remove of the handle it returned that were the
\* last two), with the world before the add.
NextTracked ==
    \/ /\ CanAdd(MaxObjects + 1)
       /\ \E p \in Positions, q \in QueryTypes : Add(p, "ball", "default", q)
       /\ quiet' = <<>>
       /\ last_call' = Call("add", <<slab_insert_key(objects, slab_free)>>, {})
    \/ \E hs \in Batches :
          /\ Settled \/ hs = last_added
          /\ Remove(hs) /\ quiet' = <<>> /\ last_call' = AddUndone(hs)
    \/ /\ Settled
       /\ \E h \in DOMAIN objects, p \in Positions : SetPosition(h, p)
       /\ Mutated
    \/ Settled /\ UpdateBeginQuiet /\ Updating
    \/ HandleSignal /\ Updating
    \/ BeginNarrowPhase /\ Updating
    \/ UpdateEdge /\ Updating
    \/ /\ EndUpdate
       /\ quiet' = IF pc' = "idle" THEN Append(quiet, update_view') ELSE quiet
       /\ last_call' = <<>>

SpecTracked == Init /\ [][NextTracked]_vars

\* Two objects on a line and every setter of the world.
NextSetters ==
    \/ CanAdd(MaxObjects) /\ Add(0, "ball", "default", "Contacts") /\ Untracked
    \/ (\E h \in DOMAIN objects, p \in FewPositions : SetPosition(h, p)) /\ Untracked
    \/ /\ \E h \in DOMAIN objects, p \in FewPositions, pp \in FewPositions :
             SetPositionWithPrediction(h, p, pp)
       /\ Untracked
    \/ (\E h \in DOMAIN objects, sh \in Shapes : SetShape(h, sh)) /\ Untracked
    \/ (\E h \in DOMAIN objects : SetDeformations(h)) /\ Untracked
    \/ (\E h \in DOMAIN objects, q \in QueryTypes : SetQueryType(h, q)) /\ Untracked
    \/ /\ \E h \in DOMAIN objects, gr \in CollisionGroups : SetCollisionGroups(h, gr)
       /\ Untracked
    \/ UpdateBegin /\ Untracked
    \/ HandleSignal /\ Untracked
    \/ BeginNarrowPhase /\ Untracked
    \/ UpdateEdge /\ Untracked
    \/ EndUpdate /\ Untracked

SpecSetters == Init /\ [][NextSetters]_vars

\* Every handle a caller may hold, live or not.
Handles == 0 .. (MaxMisuseObjects - 1)

\* The lists of at most MaxBatch handles, live or not, repeated or not.
HandleLists == UNION {[1 .. n -> Handles] : n \in 1 .. MaxBatch}

\* Three objects and a caller that gives any handle to remove, to the setters
\* and to the queries; last_call holds the call just made.  The poses vary,
\* the other attributes are set to the value they have.
NextMisuse ==
    \/ /\ CanAdd(MaxMisuseObjects)
       /\ Add(0, "ball", "default", "Contacts")
       /\ last_call' = Call("add", <<slab_insert_key(objects, slab_free)>>, {})
       /\ UNCHANGED quiet
    \/ \E hs \in HandleLists :
          Remove(hs) /\ last_call' = Call("remove", hs, {}) /\ UNCHANGED quiet
    \/ \E h \in Handles, p \in FewPositions :
          /\ SetPosition(h, p)
          /\ last_call' = Call("set_position", <<h>>, {}) /\ UNCHANGED quiet
    \/ \E h \in Handles, p \in FewPositions :
          /\ SetPositionWithPrediction(h, p, p)
          /\ last_call' = Call("set_position_with_prediction", <<h>>, {}) /\ UNCHANGED quiet
    \/ \E h \in Handles :
          SetShape(h, "ball") /\ last_call' = Call("set_shape", <<h>>, {}) /\ UNCHANGED quiet
    \/ \E h \in Handles :
          SetDeformations(h) /\ last_call' = Call("set_deformations", <<h>>, {})
                             /\ UNCHANGED quiet
    \/ \E h \in Handles :
          /\ SetQueryType(h, "Contacts")
          /\ last_call' = Call("set_query_type", <<h>>, {}) /\ UNCHANGED quiet
    \/ \E h \in Handles :
          /\ SetCollisionGroups(h, "default")
          /\ last_call' = Call("set_collision_groups", <<h>>, {}) /\ UNCHANGED quiet
    \/ \E h \in Handles :
          /\ Query
          /\ last_call' = Call("collision_object", <<h>>, collision_object(h))
          /\ UNCHANGED quiet
    \/ \E h1, h2 \in Handles :
          /\ Query
          /\ last_call' = Call("interaction_pair", <<h1, h2>>, interaction_pair(h1, h2))
          /\ UNCHANGED quiet

SpecMisuse == Init /\ [][NextMisuse]_vars

\* The history of an update() that has returned: when it follows the
\* registration of a filter, the pair of calls and the world before them.
FilterApplied ==
    IF pc' = "idle" /\ last_call # <<>> /\ last_call.op = "register_broad_phase_pair_filter"
    THEN [last_call EXCEPT !.op = "register_update"]
    ELSE <<>>

\* Two balls on a line and a pair filter that rejects every pair; last_call
\* holds the registration of the filter until the update that follows it has
\* returned.
NextFilters ==
    \/ /\ CanAdd(MaxObjects)
       /\ \E p \in Positions, q \in QueryTypes : Add(p, "ball", "default", q)
       /\ Mutated
    \/ (\E hs \in Batches : Remove(hs)) /\ Mutated
    \/ (\E h \in DOMAIN objects, p \in Positions : SetPosition(h, p)) /\ Mutated
    \/ /\ RegisterPairFilter("reject_all")
       /\ last_call' = Call("register_broad_phase_pair_filter", <<>>, {})
       /\ UNCHANGED quiet
    \/ UnregisterPairFilter("reject_all") /\ Mutated
    \/ UpdateBegin /\ Untracked
    \/ HandleSignal /\ Untracked
    \/ BeginNarrowPhase /\ Untracked
    \/ UpdateEdge /\ Untracked
    \/ EndUpdate /\ last_call' = FilterApplied /\ UNCHANGED quiet

SpecFilters == Init /\ [][NextFilters]_vars

\* NarrowPhase::handle_interaction called outside of an update, for any two
\* live objects in either order (the handler of collision_world.rs 53-69).
Signal(handle1, handle2, started) ==
    /\ pc = "idle"
    /\ LET r == handle_interaction(narrow_phase, interactions, objects,
                                   handle1, handle2, started)
       IN /\ narrow_phase' = r.np
          /\ interactions' = r.g
          /\ pc' = IF r.panic THEN "panic" ELSE "idle"
          /\ contact_log' = log_contact_events(contact_log,
                                 pushed_contact_events(narrow_phase, r.np))
    /\ UNCHANGED <<objects, slab_free, broad_phase, pair_filters, timestamp,
                   signals, eid>>

\* Three balls and the signals of a broad phase in any order, with repeats.
NextSignals ==
    \/ /\ CanAdd(MaxSignalObjects)
       /\ \E q \in QueryTypes : Add(0, "ball", "default", q)
       /\ Untracked
    \/ (\E hs \in Batches : Remove(hs)) /\ Untracked
    \/ /\ \E h1, h2 \in DOMAIN objects : \E started \in BOOLEAN :
             h1 # h2 /\ Signal(h1, h2, started)
       /\ Untracked

SpecSignals == Init /\ [][NextSignals]_vars

\* The pose at which the object of a handle is added: 0, 22, 32.
start_position(handle) == IF handle = 0 THEN 0 ELSE 12 + 10 * handle

\* Three balls on a line, two neighbours of which touch: the graph may hold
\* two edges, and an object may change its query policy under an edge.
NextEdges ==
    \/ /\ CanAdd(MaxEdgeObjects)
       /\ timestamp = 0
       /\ Add(start_position(slab_insert_key(objects, slab_free)),
              "ball", "default", "Contacts")
       /\ Untracked
    \/ /\ timestamp < MaxSteps
       /\ \E h \in DOMAIN objects, p \in Positions : SetPosition(h, p)
       /\ Untracked
    \/ /\ timestamp < MaxSteps
       /\ \E h \in DOMAIN objects : SetQueryType(h, "Proximity")
       /\ Untracked
    \/ UpdateBegin /\ Untracked
    \/ HandleSignal /\ Untracked
    \/ BeginNarrowPhase /\ Untracked
    \/ UpdateEdge /\ Untracked
    \/ EndUpdate /\ Untracked

SpecEdges == Init /\ [][NextEdges]_vars

\* Two balls on a line and every call that changes an object between two
\* updates.  The shape and the collision groups are set to the value they have.
NextCalls ==
    \/ /\ CanAdd(MaxObjects)
       /\ \E p \in FewPositions, q \in QueryTypes : Add(p, "ball", "default", q)
       /\ Untracked
    \/ (\E hs \in Batches : Remove(hs)) /\ Untracked
    \/ /\ \E h \in DOMAIN objects, p \in FewPositions : SetPosition(h, p)
       /\ Untracked
    \/ /\ \E h \in DOMAIN objects, p \in FewPositions, pp \in FewPositions :
             SetPositionWithPrediction(h, p, pp)
       /\ Untracked
    \/ (\E h \in DOMAIN objects : SetShape(h, objects[h].shape)) /\ Untracked
    \/ (\E h \in DOMAIN objects : SetDeformations(h)) /\ Untracked
    \/ /\ \E h \in DOMAIN objects, q \in QueryTypes : SetQueryType(h, q)
       /\ Untracked
    \/ /\ \E h \in DOMAIN objects : SetCollisionGroups(h, objects[h].collision_groups)
       /\ Untracked
    \/ UpdateBegin /\ Untracked
    \/ HandleSignal /\ Untracked
    \/ BeginNarrowPhase /\ Untracked
    \/ UpdateEdge /\ Untracked
    \/ EndUpdate /\ Untracked

SpecCalls == Init /\ [][NextCalls]_vars

\* The second ball may be placed: every placement made so far was followed by
\* one update().
PlacementDue ==
    /\ pc = "idle"
    /\ Len(last_call) < MaxPlacements
    /\ Len(quiet) = Len(last_call)

\* Two Proximity balls, the first at 0, the second placed (added, then moved)
\* along the line with one update() after each placement; last_call holds the
\* poses given to the second ball, quiet what each update() left.
NextScenario ==
    \/ /\ objects = <<>>
       /\ Add(0, "ball", "default", "Proximity")
       /\ Untracked
    \/ /\ Cardinality(DOMAIN objects) = 1
       /\ PlacementDue
       /\ \E p \in ScenarioPositions :
             Add(p, "ball", "default", "Proximity") /\ last_call' = Append(last_call, p)
       /\ UNCHANGED quiet
    \/ /\ PlacementDue
       /\ \E h \in DOMAIN objects \ {0}, p \in ScenarioPositions :
             SetPosition(h, p) /\ last_call' = Append(last_call, p)
       /\ UNCHANGED quiet
    \/ Len(quiet) < Len(last_call) /\ BeginUpdate /\ Untracked
    \/ HandleSignal /\ Untracked
    \/ BeginNarrowPhase /\ Untracked
    \/ UpdateEdge /\ Untracked
    \/ EndUpdate /\ quiet' = Append(quiet, update_view') /\ UNCHANGED last_call

SpecScenario == Init /\ [][NextScenario]_vars

\* Two balls on a line moved with a predicted pose; last_call holds the last
\* call of set_position_with_prediction until update() starts.
NextPrediction ==
    \/ /\ CanAdd(MaxObjects)
       /\ \E p \in Positions, q \in QueryTypes : Add(p, "ball", "default", q)
       /\ Mutated
    \/ \E h \in DOMAIN objects, p \in Positions, pp \in Positions :
          /\ SetPositionWithPrediction(h, p, pp)
          /\ last_call' = [op |-> "set_position_with_prediction", handle |-> h,
                           pos |-> p, predicted_pos |-> pp]
          /\ UNCHANGED quiet
    \/ UpdateBegin /\ Updating
    \/ HandleSignal /\ Updating
    \/ BeginNarrowPhase /\ Updating
    \/ UpdateEdge /\ Updating
    \/ EndUpdate /\ Updating

SpecPrediction == Init /\ [][NextPrediction]_vars

\* The pair of handles joined by the edge the step has added to the graph, as
\* a list: empty when the step added none.
created_pairs ==
    IF Len(interactions'.edges) > Len(interactions.edges)
    THEN LET e == interactions'.edges[Len(interactions'.edges)]
         IN <<{interactions'.nodes[e.a + 1], interactions'.nodes[e.b + 1]}>>
    ELSE <<>>

\* Two balls on a line that interfere or not as their collision groups and a
\* pair filter decide; during an update() last_call holds the pairs whose edge
\* a started signal of this update() has created.
NextRedetect ==
    \/ /\ CanAdd(MaxObjects)
       /\ \E p \in Positions, q \in QueryTypes : Add(p, "ball", "default", q)
       /\ Mutated
    \/ (\E h \in DOMAIN objects, p \in Positions : SetPosition(h, p)) /\ Mutated
    \/ /\ \E h \in DOMAIN objects, gr \in CollisionGroups : SetCollisionGroups(h, gr)
       /\ Mutated
    \/ RegisterPairFilter("reject_all") /\ Mutated
    \/ UnregisterPairFilter("reject_all") /\ Mutated
    \/ UpdateBegin /\ Updating
    \/ HandleSignal /\ last_call' = last_call \o created_pairs /\ UNCHANGED quiet
    \/ BeginNarrowPhase /\ Untracked
    \/ UpdateEdge /\ Untracked
    \/ EndUpdate /\ Updating

SpecRedetect == Init /\ [][NextRedetect]_vars

\* -------------------------------------------------------------- properties
\* The handle held by the graph node at index i, as a set: {} past the end.
node_handle(i) ==
    IF i < node_count(interactions) THEN {interactions.nodes[i + 1]} ELSE {}

\* The two handles an edge joins.
edge_handles(e) == <<interactions.nodes[e.a + 1], interactions.nodes[e.b + 1]>>

\* C1: after any sequence of add and remove calls, the graph node at the graph
\* index of every live object holds that object's handle, and no two live
\* objects share a graph index.
C1_GraphIndexConsistent ==
    pc = "idle" =>
        /\ \A h \in DOMAIN objects : node_handle(objects[h].graph_index) = {h}
        /\ \A h1, h2 \in DOMAIN objects :
             objects[h1].graph_index = objects[h2].graph_index => h1 = h2

\* C2: in every state the world reaches, each edge of the interaction graph
\* joins two distinct handles that both refer to live objects.
C2_EdgesJoinLiveObjects ==
    pc = "idle" =>
        \A i \in edge_ids(interactions) :
            LET hs == edge_handles(interactions.edges[i]) IN
            hs[1] # hs[2] /\ Live(hs[1]) /\ Live(hs[2])

\* C3: in every reachable state, every contact of every manifold held by a
\* graph edge has an id that is null or a live slot of the contact-ID pool.
C3_ContactIdsLive ==
    contact_ids(interactions) \subseteq narrow_phase.id_allocator.live

\* The contact and proximity events pushed by the step.
step_contact_events ==
    IF pc \in {"broad", "narrow"}
    THEN pushed_contact_events(narrow_phase, narrow_phase') ELSE <<>>

step_proximity_events ==
    IF pc \in {"broad", "narrow"}
    THEN SubSeq(narrow_phase'.proximity_events,
                Len(narrow_phase.proximity_events) + 1,
                Len(narrow_phase'.proximity_events))
    ELSE <<>>

\* C4: over any run, the contact events of every pair of handles strictly
\* alternate Started, Stopped, Started, ..., beginning with Started: a Started
\* is pushed only for a pair whose last event is not Started, a Stopped only
\* for a pair whose last event is Started.
C4_ContactEventsAlternate ==
    [][\A i \in DOMAIN step_contact_events :
          LET ev == step_contact_events[i] IN
          IF ev.type = "Started" THEN pair_of(ev) \notin contact_log
          ELSE pair_of(ev) \in contact_log]_vars

\* The step is one iteration of NarrowPhase::update on the edge at eid, and
\* it did not panic.
EdgeUpdated == pc = "narrow" /\ pc' = "narrow" /\ eid' = eid + 1

\* C5: update_contact on the edge of a and b pushes exactly one Started(a, b)
\* when the manifold was empty before and is not after, exactly one
\* Stopped(a, b) when it was not empty before and is after, and no contact
\* event otherwise.
C5_UpdateContactEvents ==
    [][EdgeUpdated /\ interactions.edges[eid].w.kind = "Contact" =>
          LET before == interactions.edges[eid].w.manifold
              after == interactions'.edges[eid].w.manifold
              hs == edge_handles(interactions.edges[eid])
          IN step_contact_events =
                IF before = <<>> /\ after # <<>>
                THEN <<ContactEvent("Started", hs[1], hs[2])>>
                ELSE IF before # <<>> /\ after = <<>>
                     THEN <<ContactEvent("Stopped", hs[1], hs[2])>>
                     ELSE <<>>]_vars

\* update_contact has pushed a Stopped: the narrow phase is past a contact edge
\* whose manifold is empty now, and the pool holds the Stopped of its handles.
C5_Witness ==
    /\ pc = "narrow"
    /\ \E i \in 1 .. (eid - 1) :
         LET e == interactions.edges[i]
             hs == edge_handles(e)
         IN /\ e.w.kind = "Contact"
            /\ e.w.manifold = <<>>
            /\ hs[1] # hs[2]
            /\ \E k \in DOMAIN narrow_phase.contact_events :
                 narrow_phase.contact_events[k] = ContactEvent("Stopped", hs[1], hs[2])

\* C6: update_proximity on the edge of a and b pushes exactly one proximity
\* event (a, b, prev, current) when the status after the update differs from
\* the status before, and nothing when it is the same.
C6_UpdateProximityEvents ==
    [][EdgeUpdated /\ interactions.edges[eid].w.kind = "Proximity" =>
          LET prev == interactions.edges[eid].w.proximity
              current == interactions'.edges[eid].w.proximity
              hs == edge_handles(interactions.edges[eid])
          IN /\ step_proximity_events =
                   IF current # prev
                   THEN <<ProximityEvent(hs[1], hs[2], prev, current)>>
                   ELSE <<>>
             /\ step_contact_events = <<>>]_vars

\* update_proximity has reported a transition between two of the statuses an
\* update can leave and come back to.
C6_Witness ==
    /\ pc = "narrow"
    /\ \E i \in 1 .. (eid - 1) :
         LET e == interactions.edges[i]
             hs == edge_handles(e)
         IN /\ e.w.kind = "Proximity"
            /\ e.w.proximity = "Disjoint"
            /\ \E k \in DOMAIN narrow_phase.proximity_events :
                 narrow_phase.proximity_events[k] =
                     ProximityEvent(hs[1], hs[2], "WithinMargin", "Disjoint")

\* The step is CollisionWorldInterferenceHandler handling one signal of the
\* broad phase; handled_signal is that signal.
SignalHandled == pc = "broad" /\ signals' # signals
handled_signal == CHOOSE s \in signals : s \notin signals'

\* The edges of g that join the objects a and b.
edges_between(g, a, b) ==
    {i \in edge_ids(g) : {g.nodes[g.edges[i].a + 1], g.nodes[g.edges[i].b + 1]} = {a, b}}

\* C7: handle_interaction(a, b, started = false) removes the edge between a
\* and b if there is one and does nothing otherwise; when the removed edge is
\* a contact edge it pushes one Stopped exactly when the manifold was not
\* empty, and no contact event when it was empty or there was no edge.
C7_StoppedSignalRemovesEdge ==
    [][SignalHandled /\ ~handled_signal.started =>
          LET a == handled_signal.h1
              b == handled_signal.h2
              between == edges_between(interactions, a, b)
          IN /\ pc' = "broad"
             /\ IF between = {}
                THEN interactions' = interactions /\ narrow_phase' = narrow_phase
                ELSE \E i \in between :
                        LET w == interactions.edges[i].w IN
                        /\ interactions' = remove_edge(interactions, i)
                        /\ step_contact_events \in
                              IF w.kind = "Contact" /\ w.manifold # <<>>
                              THEN {<<ContactEvent("Stopped", a, b)>>,
                                    <<ContactEvent("Stopped", b, a)>>}
                              ELSE {<<>>}]_vars

\* The step is CollisionWorld::remove; removed_handles are the handles it
\* took out of the slab.
ObjectsRemoved == pc = "idle" /\ ~(DOMAIN objects \subseteq DOMAIN objects')
removed_handles == (DOMAIN objects) \ (DOMAIN objects')

\* The proximity edges that are not Disjoint and have an endpoint in hs.
close_proximity_edges(g, hs) ==
    {i \in edge_ids(g) :
        /\ g.edges[i].w.kind = "Proximity"
        /\ g.edges[i].w.proximity # "Disjoint"
        /\ {g.nodes[g.edges[i].a + 1], g.nodes[g.edges[i].b + 1]} \cap hs # {}}

\* A stopped signal for a and b that removes a proximity edge pushes one event
\* (a, b, previous status, Disjoint) when the edge was WithinMargin or
\* Intersecting, and none when it was Disjoint.
StoppedSignalProximityEvents ==
    SignalHandled /\ ~handled_signal.started /\ interactions' # interactions =>
        LET a == handled_signal.h1
            b == handled_signal.h2
        IN \E i \in edge_ids(interactions) :
              LET w == interactions.edges[i].w IN
              /\ interactions' = remove_edge(interactions, i)
              /\ w.kind = "Proximity" =>
                    step_proximity_events \in
                       IF w.proximity # "Disjoint"
                       THEN {<<ProximityEvent(a, b, w.proximity, "Disjoint")>>,
                             <<ProximityEvent(b, a, w.proximity, "Disjoint")>>}
                       ELSE {<<>>}

\* C8 (as stated): whenever a proximity edge that is WithinMargin or
\* Intersecting is removed from the graph, by a stopped signal or by the
\* removal of one of its endpoints, one proximity event to Disjoint is pushed;
\* the removal of a Disjoint proximity edge pushes none.
C8_ProximityEdgeRemovalEvents ==
    [][/\ StoppedSignalProximityEvents
       /\ ObjectsRemoved =>
            Len(narrow_phase'.proximity_events) =
                Len(narrow_phase.proximity_events)
                  + Cardinality(close_proximity_edges(interactions, removed_handles))]_vars

\* C8 (amended): a stopped signal that removes a proximity edge pushes one
\* proximity event to Disjoint when the edge was WithinMargin or Intersecting
\* and none when it was Disjoint; the removal of an object pushes no proximity
\* event, whatever the status of its proximity edges.
C8_StoppedSignalOnlyProximityEvents ==
    [][/\ StoppedSignalProximityEvents
       /\ ObjectsRemoved =>
            narrow_phase'.proximity_events = narrow_phase.proximity_events]_vars

\* A stopped signal has removed a proximity edge that was not Disjoint: the
\* signals are being handled and the pool holds an event to Disjoint.
C8_Witness ==
    /\ pc = "broad"
    /\ \E k \in DOMAIN narrow_phase.proximity_events :
         narrow_phase.proximity_events[k].new_status = "Disjoint"

\* The contact edges with a contact that have an endpoint in hs.
active_contact_edges(g, hs) ==
    {i \in edge_ids(g) :
        /\ g.edges[i].w.kind = "Contact"
        /\ g.edges[i].w.manifold # <<>>
        /\ {g.nodes[g.edges[i].a + 1], g.nodes[g.edges[i].b + 1]} \cap hs # {}}

\* C9: removing an object that has contact edges with contacts removes its
\* node and its edges and pushes no Stopped, and the garbage collection of the
\* next update leaves no id in the pool that only their manifolds held.
C9_RemovalReleasesContacts ==
    [][/\ ObjectsRemoved /\ active_contact_edges(interactions, removed_handles) # {} =>
            /\ pc' = "idle"
            /\ \A i \in 1 .. node_count(interactions') :
                 interactions'.nodes[i] \notin removed_handles
            /\ narrow_phase' = narrow_phase
       /\ pc = "narrow" /\ pc' = "idle" =>
            narrow_phase'.id_allocator.live = contact_ids(interactions')]_vars

\* C10: handle_interaction(a, b, started = true) on a pair with no edge
\* creates a Contact edge with an empty manifold when both objects have a
\* Contacts policy and a Proximity edge otherwise, and nothing when the
\* dispatcher has no detector; on a pair that has an edge it leaves the graph
\* as it is; it never pushes an event.
C10_StartedSignalCreatesEdge ==
    [][SignalHandled /\ handled_signal.started =>
          LET a == handled_signal.h1
              b == handled_signal.h2
              both == objects[a].query_type = "Contacts" /\ objects[b].query_type = "Contacts"
              detector == IF both
                          THEN get_contact_algorithm(objects[a].shape, objects[b].shape)
                          ELSE get_proximity_algorithm(objects[a].shape, objects[b].shape)
              n == Len(interactions.edges)
          IN /\ pc' = "broad"
             /\ narrow_phase' = narrow_phase
             /\ IF edges_between(interactions, a, b) # {} \/ detector = {}
                THEN interactions' = interactions
                ELSE /\ interactions'.nodes = interactions.nodes
                     /\ Len(interactions'.edges) = n + 1
                     /\ SubSeq(interactions'.edges, 1, n) = interactions.edges
                     /\ edges_between(interactions', a, b) = {n + 1}
                     /\ interactions'.edges[n + 1].w =
                           IF both THEN ContactInteraction(<<>>)
                           ELSE ProximityInteraction("Disjoint")]_vars

\* C11: after any sequence of started and stopped signals, in any order, with
\* repeats and with the handles in either order, interleaved with additions
\* and removals, the graph holds at most one edge per unordered pair of objects.
C11_OneEdgePerPair ==
    \A i, j \in edge_ids(interactions) :
        LET hi == edge_handles(interactions.edges[i])
            hj == edge_handles(interactions.edges[j])
        IN {hi[1], hi[2]} = {hj[1], hj[2]} => i = j

\* C12: immediately after garbage_collect_ids has returned, every live slot of
\* the id pool is the id of at least one contact held by a manifold of the graph.
C12_CollectedIdsAreContactIds ==
    [][EndUpdate /\ pc' = "idle" =>
           narrow_phase'.id_allocator.live \subseteq contact_ids(interactions')]_vars

\* An update has ended with a contact id in use after another was collected.
C12_Witness ==
    /\ pc = "idle"
    /\ timestamp > 0
    /\ narrow_phase.id_allocator.live # {}
    /\ narrow_phase.id_allocator.live = contact_ids(interactions)
    /\ narrow_phase.id_allocator.next > Cardinality(narrow_phase.id_allocator.live)
\* C13: when update() is called twice in a row with no other call in between,
\* the second call leaves both event pools empty and the graph (its edges,
\* every manifold with its contacts and their ids, every proximity status) as
\* the first call left it.
C13_SecondUpdateChangesNothing ==
    \A i \in 2 .. Len(quiet) :
        /\ quiet[i].contact_events = <<>>
        /\ quiet[i].proximity_events = <<>>
        /\ quiet[i].interactions = quiet[i - 1].interactions

\* Two updates in a row, the first of which pushed a contact event for an edge
\* that is still there.
C13_Witness ==
    /\ Len(quiet) = 2
    /\ quiet[1].contact_events # <<>>
    /\ contact_ids(quiet[1].interactions) # {}

\* C14: over consecutive update() calls with no other call in between, the live
\* ids of the pool after each call are those after the first of these calls,
\* no id is given out, and both event pools are empty at the end of every call
\* after the first.
C14_QuietUpdatesKeepIds ==
    \A i \in 1 .. Len(quiet) :
        /\ quiet[i].live = quiet[1].live
        /\ quiet[i].next = quiet[1].next
        /\ i > 1 => quiet[i].contact_events = <<>> /\ quiet[i].proximity_events = <<>>

\* MaxQuiet updates in a row, the first of which ended with a live id after
\* another id had been collected.
C14_Witness ==
    /\ Len(quiet) = MaxQuiet
    /\ quiet[1].live # {}
    /\ quiet[1].next > Cardinality(quiet[1].live)
\* C15: within one update() the event pools are cleared before any signal of
\* the broad phase is handled, every signal is handled before the narrow phase
\* updates an edge, the contact ids are collected after the last edge update,
\* and the timestamp grows by exactly one, once the narrow phase has finished.
C15_UpdateOrder ==
    [][/\ pc = "idle" /\ pc' = "broad" =>
             narrow_phase'.contact_events = <<>> /\ narrow_phase'.proximity_events = <<>>
       /\ signals' # signals /\ pc # "idle" => pc = "broad"
       /\ pc = "narrow" \/ pc' = "narrow" => signals = {} /\ signals' = {}
       /\ pc = "narrow" /\ pc' = "narrow" =>
             narrow_phase.id_allocator.live \subseteq narrow_phase'.id_allocator.live
       /\ pc = "narrow" /\ pc' = "idle" =>
             /\ eid > Len(interactions.edges)
             /\ interactions' = interactions
             /\ timestamp' = timestamp + 1
       /\ timestamp' # timestamp => pc = "narrow" /\ pc' = "idle"]_vars

\* An update is about to end: it has handled a signal, updated an edge, pushed
\* an event for it and given its contact an id.
C15_Witness ==
    /\ pc = "narrow"
    /\ eid > Len(interactions.edges)
    /\ narrow_phase.contact_events # <<>>
    /\ contact_ids(interactions) # {}
    /\ timestamp > 0
\* The step is a call of one of the six setters on the live object h.
SetterCalled(h) ==
    \/ \E p \in FewPositions : SetPosition(h, p)
    \/ \E p \in FewPositions, pp \in FewPositions : SetPositionWithPrediction(h, p, pp)
    \/ \E sh \in Shapes : SetShape(h, sh)
    \/ SetDeformations(h)
    \/ \E q \in QueryTypes : SetQueryType(h, q)
    \/ \E gr \in CollisionGroups : SetCollisionGroups(h, gr)

\* C16: each of set_position, set_position_with_prediction, set_shape,
\* set_deformations, set_query_type and set_collision_groups, called on a live
\* object, sets the object's timestamp to the world's timestamp.
C16_SettersStampObject ==
    [][\A h \in DOMAIN objects :
          SetterCalled(h) => objects'[h].timestamp = timestamp]_vars
\* C17: remove, every setter and every query that takes a handle panic when
\* they are given a handle that refers to no live object.
C17_UnknownHandlePanics ==
    last_call # <<>> /\ last_call.unknown => pc = "panic"

\* The calls that panic on an unknown handle.
PanickingCalls ==
    {"remove", "set_position", "set_position_with_prediction", "set_deformations",
     "set_query_type"}

\* C17, amended: given a handle that refers to no live object, remove,
\* set_position, set_position_with_prediction, set_deformations and
\* set_query_type panic; set_shape and set_collision_groups return and change
\* nothing; the queries return None and change nothing.
C17_UnknownHandleOutcomes ==
    [][last_call' # <<>> /\ last_call'.unknown =>
          IF last_call'.op \in PanickingCalls
          THEN pc' = "panic"
          ELSE pc' = "idle" /\ world_view' = world_view /\ last_call'.ret = {}]_vars

\* set_shape has returned from a call with the handle of a removed object.
C17_Witness ==
    /\ last_call # <<>>
    /\ last_call.op = "set_shape"
    /\ last_call.unknown
    /\ \E i \in DOMAIN slab_free : slab_free[i] = last_call.handles[1]
    /\ pc = "idle"
\* The number of graph nodes of g that hold the handle h.
nodes_of(g, h) == Cardinality({i \in 1 .. Len(g.nodes) : g.nodes[i] = h})

\* The handles of the list hs.
listed(hs) == {hs[i] : i \in DOMAIN hs}

\* C18: remove(handles) panics when the list holds the same live handle twice;
\* when it returns, every object that is not in the list has kept its graph
\* node, and every listed object is gone with its graph node and its proxy.
C18_RemoveAllOrPanic ==
    [][\A hs \in HandleLists : Remove(hs) =>
          /\ (\E i, j \in DOMAIN hs : i # j /\ hs[i] = hs[j] /\ Live(hs[i])) =>
                 pc' = "panic"
          /\ pc' = "idle" =>
                 /\ \A h \in (DOMAIN objects) \ listed(hs) :
                        /\ h \in DOMAIN objects'
                        /\ nodes_of(interactions', h) = nodes_of(interactions, h)
                 /\ \A h \in listed(hs) :
                        /\ h \notin DOMAIN objects'
                        /\ nodes_of(interactions', h) = 0
                        /\ \A px \in DOMAIN broad_phase'.proxies :
                               broad_phase'.proxies[px].data # h]_vars
\* C19: add followed immediately by remove of the handle it returned restores
\* the live objects with their attributes and back-references, the graph, the
\* proxies and pairs of the broad phase, the event pools and the id pool to
\* what they were before the add.
C19_AddRemoveRestores ==
    last_call # <<>> /\ last_call.op = "add_remove" =>
        pc = "idle" /\ world_view = last_call.world

\* An object was added to a world with an edge between two others holding a
\* contact, after an update, and removed at once.
C19_Witness ==
    /\ last_call # <<>>
    /\ last_call.op = "add_remove"
    /\ contact_ids(interactions) # {}
    /\ Cardinality(DOMAIN objects) = MaxObjects
    /\ narrow_phase.contact_events # <<>>
\* The two handles the nodes of edge e of the graph g hold, the smaller first.
sorted_handles(g, e) ==
    <<Min(g.nodes[g.edges[e].a + 1], g.nodes[g.edges[e].b + 1]),
      Max(g.nodes[g.edges[e].a + 1], g.nodes[g.edges[e].b + 1])>>

\* C20: after a pair filter that rejects every pair is registered and update()
\* has returned, the graph has no edge; the contact pool holds one Stopped per
\* contact edge that held a contact and nothing else, the proximity pool one
\* event to Disjoint per proximity edge that was not Disjoint and nothing else
\* (the events the stopped signals push).
C20_RejectAllEmptiesGraph ==
    last_call # <<>> /\ last_call.op = "register_update" =>
        LET g == last_call.world.interactions
            contacts == {e \in edge_ids(g) : /\ g.edges[e].w.kind = "Contact"
                                             /\ g.edges[e].w.manifold # <<>>}
            close == {e \in edge_ids(g) : /\ g.edges[e].w.kind = "Proximity"
                                          /\ g.edges[e].w.proximity # "Disjoint"}
            cev == narrow_phase.contact_events
            pev == narrow_phase.proximity_events
        IN /\ interactions.edges = <<>>
           /\ Len(cev) = Cardinality(contacts)
           /\ {cev[i] : i \in DOMAIN cev} =
                 {ContactEvent("Stopped", sorted_handles(g, e)[1], sorted_handles(g, e)[2]) :
                     e \in contacts}
           /\ Len(pev) = Cardinality(close)
           /\ {pev[i] : i \in DOMAIN pev} =
                 {ProximityEvent(sorted_handles(g, e)[1], sorted_handles(g, e)[2],
                                 g.edges[e].w.proximity, "Disjoint") : e \in close}

\* s is an initial segment of t.
IsPrefix(s, t) == Len(s) <= Len(t) /\ SubSeq(t, 1, Len(s)) = s

\* NarrowPhase::update is about to call update_contact on an edge one of whose
\* endpoints does not have a Contacts policy.
IncompatibleQueryTypes ==
    /\ pc = "narrow"
    /\ eid <= Len(interactions.edges)
    /\ LET e == interactions.edges[eid]
           hs == edge_handles(e)
       IN /\ Live(hs[1]) /\ Live(hs[2])
          /\ e.w.kind = "Contact"
          /\ objects[hs[1]].timestamp = timestamp \/ objects[hs[2]].timestamp = timestamp
          /\ contact_queries_to_prediction(objects[hs[1]].query_type,
                                           objects[hs[2]].query_type) = {}

\* C21: when update() aborts on a contact edge one endpoint of which has no
\* Contacts policy, the events appended earlier in that step are still in the
\* pools: inside update() the pools only grow, and the aborting step leaves
\* them as they are.
C21_AbortKeepsEvents ==
    [][/\ pc \in {"broad", "narrow"} =>
            /\ IsPrefix(narrow_phase.contact_events, narrow_phase'.contact_events)
            /\ IsPrefix(narrow_phase.proximity_events, narrow_phase'.proximity_events)
       /\ IncompatibleQueryTypes =>
            /\ pc' = "panic"
            /\ narrow_phase'.contact_events = narrow_phase.contact_events
            /\ narrow_phase'.proximity_events = narrow_phase.proximity_events]_vars

\* update() has aborted on the second edge or a later one, after a contact
\* event of the same step.
C21_Witness ==
    /\ pc = "panic"
    /\ eid >= 3
    /\ eid - 1 <= Len(interactions.edges)
    /\ LET e == interactions.edges[eid - 1]
           hs == edge_handles(e)
       IN /\ Live(hs[1]) /\ Live(hs[2])
          /\ e.w.kind = "Contact"
          /\ contact_queries_to_prediction(objects[hs[1]].query_type,
                                           objects[hs[2]].query_type) = {}
    /\ narrow_phase.contact_events # <<>>

\* C22: the events of an update stay in the pools, unchanged, across every
\* add, remove and setter call made before the next update(); the next
\* update() empties both pools as its first step, and appends after that.
C22_EventsKeptUntilNextUpdate ==
    [][/\ pc = "idle" /\ pc' # "broad" =>
            /\ narrow_phase'.contact_events = narrow_phase.contact_events
            /\ narrow_phase'.proximity_events = narrow_phase.proximity_events
       /\ pc = "idle" /\ pc' = "broad" =>
            /\ narrow_phase'.contact_events = <<>>
            /\ narrow_phase'.proximity_events = <<>>
       /\ pc \in {"broad", "narrow"} =>
            /\ Len(narrow_phase'.contact_events) >= Len(narrow_phase.contact_events)
            /\ Len(narrow_phase'.proximity_events) >= Len(narrow_phase.proximity_events)]_vars

\* Between two updates the pool holds a contact event of a pair one object of
\* which has been removed since, or has been moved since.
C22_Witness ==
    /\ pc = "idle"
    /\ narrow_phase.contact_events # <<>>
    /\ \/ Cardinality(DOMAIN objects) < 2
       \/ \E h \in DOMAIN objects : objects[h].timestamp = timestamp

\* The proximity events of the updates recorded in q, oldest first, each as
\* the pair it names and its two statuses.
RECURSIVE proximity_history(_)
proximity_history(q) ==
    IF q = <<>> THEN <<>>
    ELSE LET evs == Head(q).proximity_events IN
         [i \in DOMAIN evs |-> <<{evs[i].h1, evs[i].h2},
                                 evs[i].prev_status, evs[i].new_status>>]
           \o proximity_history(Tail(q))

\* The second ball was placed at 5.0, 1.8 and 0.5 units, and the update() after
\* the last placement has returned.
ScenarioPlayed ==
    /\ pc = "idle"
    /\ last_call = <<50, 18, 5>>
    /\ Len(quiet) = 3

\* C23 as stated: two unit balls with policy Proximity(0.5), the first at 0,
\* the second placed at 5.0, then 1.8, then 0.5 with one update() after each
\* placement, give the proximity events Disjoint to WithinMargin and then
\* WithinMargin to Intersecting, and no others.
C23_ScenarioThroughMargin ==
    ScenarioPlayed =>
        proximity_history(quiet) = << <<{0, 1}, "Disjoint", "WithinMargin">>,
                                      <<{0, 1}, "WithinMargin", "Intersecting">> >>

\* C23, amended: the placements give one proximity event, Disjoint to
\* Intersecting, in the update() after the placement at 1.8 (balls of radius 1
\* whose centres are 1.8 apart overlap), and no contact event.
C23_ScenarioIntersects ==
    ScenarioPlayed =>
        /\ quiet[1].proximity_events = <<>>
        /\ proximity_history(<<quiet[2]>>) = << <<{0, 1}, "Disjoint", "Intersecting">> >>
        /\ quiet[3].proximity_events = <<>>
        /\ \A i \in 1 .. 3 : quiet[i].contact_events = <<>>

C23_Witness ==
    /\ ScenarioPlayed
    /\ \E e \in edge_ids(interactions) :
          interactions.edges[e].w.proximity = "Intersecting"

\* The edge at index i joins two live objects one of which has the timestamp
\* of the step.
touched(i) ==
    LET hs == edge_handles(interactions.edges[i]) IN
    /\ Live(hs[1]) /\ Live(hs[2])
    /\ objects[hs[1]].timestamp = timestamp \/ objects[hs[2]].timestamp = timestamp

\* What update_interaction gives for the edge at index i.
interaction_updated(i) ==
    LET e == interactions.edges[i]
        hs == edge_handles(e)
    IN update_interaction(narrow_phase, objects[hs[1]], objects[hs[2]], e.w)

\* C24: in NarrowPhase::update with step timestamp t, update_interaction runs
\* on an edge exactly when one of its endpoints has timestamp t: the step on
\* such an edge leaves what update_interaction gives, the step on any other
\* edge leaves the edge, the pools and the ids as they are; no step changes
\* an edge other than its own.
C24_UpdateOnlyTouchedEdges ==
    [][pc = "narrow" /\ eid <= Len(interactions.edges)
          /\ Live(edge_handles(interactions.edges[eid])[1])
          /\ Live(edge_handles(interactions.edges[eid])[2]) =>
          /\ Len(interactions'.edges) = Len(interactions.edges)
          /\ \A j \in edge_ids(interactions) \ {eid} :
                interactions'.edges[j] = interactions.edges[j]
          /\ IF touched(eid)
             THEN /\ narrow_phase' = interaction_updated(eid).np
                  /\ interactions'.edges[eid].w = interaction_updated(eid).w
                  /\ (pc' = "panic") = interaction_updated(eid).panic
             ELSE /\ interactions'.edges[eid] = interactions.edges[eid]
                  /\ narrow_phase' = narrow_phase
                  /\ pc' = "narrow"]_vars

\* The pass is beyond an edge it has updated and an edge it has left alone
\* although update_interaction would not have left it as it is.
C24_Witness ==
    /\ pc = "narrow"
    /\ \E i, j \in 1 .. (eid - 1) :
          /\ touched(i)
          /\ Live(edge_handles(interactions.edges[j])[1])
          /\ Live(edge_handles(interactions.edges[j])[2])
          /\ ~touched(j)
          /\ \/ interaction_updated(j).panic
             \/ interaction_updated(j).w # interactions.edges[j].w

\* The box bb1 contains the box bb2.
contains(bb1, bb2) == bb1[1] <= bb2[1] /\ bb2[2] <= bb1[2]

\* The box of an object at a pose, loosened by the query limit of its policy.
loosened_box(co, pos) == loosen(aabb(co.shape, pos), query_limit(co.query_type))

\* The started signal of the broad phase for the objects h and o.
started_signal(h, o) == [h1 |-> Min(h, o), h2 |-> Max(h, o), started |-> TRUE]

C26_ObjectTimestampsBehind ==
    [][/\ \A h \in DOMAIN objects' : objects'[h].timestamp <= timestamp'
       /\ pc = "narrow" /\ pc' = "idle" =>
            \A h \in DOMAIN objects' : objects'[h].timestamp < timestamp']_vars

\* After two updates, an object changed since the last one and an object
\* changed before it.
C26_Witness ==
    /\ pc = "idle"
    /\ timestamp = MaxSteps
    /\ \E h1, h2 \in DOMAIN objects :
          /\ objects[h1].timestamp = timestamp
          /\ objects[h2].timestamp = timestamp - 1

\* C27: when update() returns, an edge holds a Contact interaction exactly
\* when both the objects it joins have a Contacts policy, also when
\* set_query_type was called before the update(); and no iteration of
\* NarrowPhase::update panics on incompatible query types.
C27_EdgeKindMatchesPolicies ==
    [][/\ pc = "narrow" /\ pc' = "idle" =>
            \A i \in edge_ids(interactions') :
               LET e == interactions'.edges[i]
                   h1 == interactions'.nodes[e.a + 1]
                   h2 == interactions'.nodes[e.b + 1]
               IN (h1 \in DOMAIN objects' /\ h2 \in DOMAIN objects') =>
                     ((e.w.kind = "Contact") <=>
                        (objects'[h1].query_type = "Contacts"
                           /\ objects'[h2].query_type = "Contacts"))
       /\ ~(IncompatibleQueryTypes /\ pc' = "panic")]_vars

\* C28: when update_contact fails on incompatible query types it has changed
\* nothing: the manifold holds the contacts it held, no id was allocated and
\* no event was appended.
C28_FailedUpdateContactChangesNothing ==
    [][IncompatibleQueryTypes /\ pc' = "panic" =>
          /\ interactions' = interactions
          /\ narrow_phase'.id_allocator = narrow_phase.id_allocator
          /\ narrow_phase'.contact_events = narrow_phase.contact_events
          /\ narrow_phase'.proximity_events = narrow_phase.proximity_events]_vars

\* update_contact has failed on a manifold that holds a contact.
C28_Witness ==
    /\ pc = "panic"
    /\ eid >= 2
    /\ eid - 1 <= Len(interactions.edges)
    /\ LET e == interactions.edges[eid - 1]
           hs == edge_handles(e)
       IN /\ Live(hs[1]) /\ Live(hs[2])
          /\ e.w.kind = "Contact"
          /\ e.w.manifold # <<>>
          /\ contact_queries_to_prediction(objects[hs[1]].query_type,
                                           objects[hs[2]].query_type) = {}
          /\ objects[hs[1]].timestamp = timestamp \/ objects[hs[2]].timestamp = timestamp

\* The edge at index i was created by a started signal of the update() that
\* is running.
fresh(i) ==
    LET hs == edge_handles(interactions.edges[i])
    IN \E k \in DOMAIN last_call : last_call[k] = {hs[1], hs[2]}

\* No event of the pools names the two handles.
no_event_of(hs) ==
    /\ \A k \in DOMAIN narrow_phase.contact_events :
          pair_of(narrow_phase.contact_events[k]) # {hs[1], hs[2]}
    /\ \A k \in DOMAIN narrow_phase.proximity_events :
          pair_of(narrow_phase.proximity_events[k]) # {hs[1], hs[2]}

\* C29: an edge created by a started signal during an update() in which
\* neither of its endpoints has the timestamp of the step is not updated in
\* that update(): to its end the manifold is empty, or the proximity status
\* the initial one, and the pools hold no event of the pair.
C29_FreshUntouchedEdgeNotUpdated ==
    pc \in {"broad", "narrow"} =>
        \A i \in edge_ids(interactions) :
            fresh(i) /\ ~touched(i) =>
                /\ interactions.edges[i].w.manifold = <<>>
                /\ interactions.edges[i].w.proximity = "Disjoint"
                /\ no_event_of(edge_handles(interactions.edges[i]))

\* NarrowPhase::update has gone through the edges and has left alone an edge
\* of this update() that update_interaction would have changed.
C29_Witness ==
    /\ pc = "narrow"
    /\ eid > Len(interactions.edges)
    /\ \E i \in edge_ids(interactions) :
          /\ fresh(i)
          /\ ~touched(i)
          /\ interaction_updated(i).w # interactions.edges[i].w

\* C30: every contact event and every proximity event of the pools names its
\* pair with the smaller handle first, whether handle_interaction pushed it
\* (the sorted pair) or NarrowPhase::update (the endpoints of the edge), also
\* after removals have swapped nodes of the graph.
C30_EventsNameSmallerHandleFirst ==
    /\ \A k \in DOMAIN narrow_phase.contact_events :
          narrow_phase.contact_events[k].h1 < narrow_phase.contact_events[k].h2
    /\ \A k \in DOMAIN narrow_phase.proximity_events :
          narrow_phase.proximity_events[k].h1 < narrow_phase.proximity_events[k].h2

====
